---------------------------- MODULE Spec2Model ----------------------------
(***************************************************************************)
(* A model of the critical-mineral reporting application (src/app.py and   *)
(* src/lib): the CSV-backed record store behind the generic admin          *)
(* add/edit/delete handlers, the Site validator, the role gates, the       *)
(* dataset share registry and the audit log with its backup-and-clear.     *)
(*                                                                         *)
(* Text is modelled as a sequence of tokens.  A token is either one of the *)
(* three characters the hand-written CSV code treats specially (the double *)
(* quote, the comma, the newline) or a chunk of ordinary characters.       *)
(* A CSV cell handled by pandas is modelled by its text (a string) in the  *)
(* file and by a typed value in a DataFrame; ReadCell and WriteCell are    *)
(* the two conversions.                                                    *)
(***************************************************************************)
EXTENDS Integers, Sequences, FiniteSets, TLC

VARIABLES
    files,        \* entity name -> rows of its CSV file (data/<csv>)
    cache,        \* the module-level DataFrames (countries_df, sites_df, sites_full)
    audit,        \* lines of data/audit_log.csv
    backups,      \* backup file name -> lines of that backup
    shares,       \* content of data/dataset_shares.csv, a token sequence
    clock,        \* datetime.utcnow(), as a logical clock
    thr,          \* per request thread: the handler's position and its local df
    resp,         \* the response of the request that completed last
    everAssigned, \* history: entity -> ids ever given to a record
    granted,      \* history: the (type, value) pairs passed to add_dataset_share
    uploaded,     \* data/uploaded_dataset.csv (file) and uploaded_df (df)
    served        \* the log entries the admin dashboard rendered last

vars ==
    <<files, cache, audit, backups, shares, clock, thr, resp, everAssigned, granted,
      uploaded, served>>

---------------------------------------------------------------------------
(* Bounds of the model. *)

\* An add is not started on a collection that already holds MaxRows rows.
MaxRows == 2
\* No request that writes the audit log starts once the clock reached MaxEvents
\* (MaxAuditEvents where the audit log itself is under study).
MaxEvents == 2
MaxAuditEvents == 4
\* Object ids a request names in its URL are drawn from 1..MaxObjId.
MaxObjId == 2

Threads == {1, 2}

---------------------------------------------------------------------------
(* Entity registry: src/lib/entities.py.  Two of the five registered       *)
(* entities are modelled: sites (the only validated one) and countries     *)
(* (users, minerals and production go through the same generic code paths  *)
(* as countries).  Of a site's fields, SiteName and MineralID are free     *)
(* text handled like CountryName and are left out.                         *)

ENTITIES == {"countries", "sites", "production"}

\* cfg['fields'] without cfg['id']
DataFields(e) ==
    CASE e = "sites" -> {"CountryID", "Latitude", "Longitude", "Production_tonnes"}
      [] e = "production" -> {"Production_tonnes"}
      [] OTHER -> {"CountryName"}

---------------------------------------------------------------------------
(* Typed cell values of a DataFrame. *)

NumV(n) == [k |-> "num", n |-> n, s |-> ""]
StrV(s) == [k |-> "str", n |-> 0, s |-> s]
NaN == [k |-> "nan", n |-> 0, s |-> ""]
Inf == [k |-> "inf", n |-> 0, s |-> ""]
ParseError == [k |-> "err", n |-> 0, s |-> ""]

\* The numerals of the model's vocabulary and the numbers they denote.
Numerals ==
    { <<"0", 0>>, <<"1", 1>>, <<"2", 2>>, <<"7", 7>>, <<"9", 9>>, <<"45", 45>>, <<"95", 95>>,
      <<"100", 100>>, <<"181", 181>>, <<"-5", 0 - 5>> }

IsNumeral(s) == \E p \in Numerals : p[1] = s
NumOf(s) == (CHOOSE p \in Numerals : p[1] = s)[2]
TextOf(n) == (CHOOSE p \in Numerals : p[2] = n)[1]

\* Python's float(s): a numeral, "nan" and "inf" parse; "" and other text raise.
PyFloat(s) ==
    IF IsNumeral(s) THEN NumV(NumOf(s))
    ELSE IF s = "nan" THEN NaN
    ELSE IF s = "inf" THEN Inf
    ELSE ParseError

\* pandas.read_csv on one cell: an empty cell and the text nan are missing values.
ReadCell(s) ==
    IF IsNumeral(s) THEN NumV(NumOf(s))
    ELSE IF s = "" \/ s = "nan" THEN NaN
    ELSE IF s = "inf" THEN Inf
    ELSE StrV(s)

\* DataFrame.to_csv on one cell: a missing value is written as an empty cell, a
\* str object (a form value assigned into the frame) as it is.
WriteCell(v) ==
    IF v.k = "num" THEN TextOf(v.n)
    ELSE IF v.k = "nan" THEN ""
    ELSE IF v.k = "inf" THEN "inf"
    ELSE v.s

\* read_csv gives a column that holds any other text the dtype object: its
\* cells are then strings, the numerals among them too.
TextColumn(file, f) == \E i \in DOMAIN file : ReadCell(file[i].c[f]).k = "str"

ReadCsv(file) ==
    [i \in DOMAIN file |->
        [id |-> file[i].id,
         c |-> [f \in DOMAIN file[i].c |->
                  IF TextColumn(file, f) /\ ReadCell(file[i].c[f]).k # "nan"
                  THEN StrV(file[i].c[f])
                  ELSE ReadCell(file[i].c[f])]]]

ToCsv(df) ==
    [i \in DOMAIN df |->
        [id |-> df[i].id,
         c |-> [f \in DOMAIN df[i].c |-> WriteCell(df[i].c[f])]]]

\* load_entity_df / load_csv: every modelled file exists, so it is read_csv.
load_entity_df(e) == ReadCsv(files[e])

Ids(df) == {df[i].id : i \in DOMAIN df}

MaxOf(S) == CHOOSE m \in S : \A x \in S : x <= m

\* An id taken from the number of rows.
NextIdLen(df) == Len(df) + 1

\* The largest id itself.
NextIdMax(df) == IF df # <<>> THEN MaxOf(Ids(df)) ELSE 1

\* CSVStore.next_id, and the same expression at app.py line 444.
NextId(df) == IF df # <<>> THEN MaxOf(Ids(df)) + 1 ELSE 1

---------------------------------------------------------------------------
(* Requests.  The session is Flask's signed cookie, which the client sends *)
(* with every request: an input of the request.                            *)

Tok(s) == <<s>>

\* The three special characters.
Q == "\""
C == ","
NL == "\n"

NoSession == [logged_in |-> FALSE, username |-> <<>>, role |-> "None"]

Administrator == [logged_in |-> TRUE, username |-> Tok("admin"), role |-> "Administrator"]

Sessions ==
    { NoSession,
      Administrator,
      [logged_in |-> TRUE, username |-> Tok("ivy"), role |-> "Investor"],
      [logged_in |-> TRUE, username |-> Tok("ann"), role |-> "Analyst"],
      [logged_in |-> TRUE, username |-> Tok("orphan"), role |-> "None"] }

\* request.form.get(f, default)
Get(form, f, default) == IF f \in DOMAIN form THEN form[f] ELSE default

\* The forms a client submits: each field is present with one of the texts
\* listed for it, or absent.
FieldTexts(f) ==
    CASE f = "CountryID" -> {"1", "2"}
      [] f = "Latitude" -> {"45", "95"}
      [] f = "Longitude" -> {"100", "181"}
      [] f = "Production_tonnes" -> {"7", "-5", "", "nan"}
      [] f = "CountryName" -> {"Testland", "Otherland"}

OptionalFields == {"Latitude", "Production_tonnes", "CountryName"}

FormsOf(e) ==
    LET domains == {D \in SUBSET DataFields(e) : DataFields(e) \ D \subseteq OptionalFields}
        texts(D) == UNION {FieldTexts(f) : f \in D}
    IN  {fm \in UNION {[D -> texts(D)] : D \in domains} :
            \A f \in DOMAIN fm : fm[f] \in FieldTexts(f)}

Forms == [e \in ENTITIES |-> FormsOf(e)]


\* The response of a request, and the session and gate it was answered under.
Response(s, gate, kind, target, flash, errors) ==
    [sess |-> s, gate |-> gate, kind |-> kind, target |-> target,
     flash |-> flash, errors |-> errors]

NoResponse == Response(NoSession, "none", "none", "", "", <<>>)

\* An administrator gate that only asks for a login.
\* A gate that calls the handler for every session.
admin_required_open(s) == "run"

admin_required_login_only(s) == IF ~s.logged_in THEN "login" ELSE "run"

\* admin_required: "run" stands for the call of the wrapped handler.
admin_required(s) ==
    IF ~s.logged_in THEN "login"
    ELSE IF s.role # "Administrator" THEN "dashboard"
    ELSE "run"

\* A gate that turns investors away as well.
investor_required_admin_only(s) ==
    IF ~s.logged_in THEN "login"
    ELSE IF s.role # "Administrator" THEN "dashboard"
    ELSE "run"

\* investor_required
investor_required(s) ==
    IF ~s.logged_in THEN "login"
    ELSE IF s.role # "Investor" /\ s.role # "Administrator" THEN "dashboard"
    ELSE "run"

\* What a gate that does not call the handler returns.
GateResponse(s, gate, verdict) ==
    IF verdict = "login"
    THEN Response(s, gate, "redirect", "/login", "", <<>>)
    ELSE Response(s, gate, "redirect", "/dashboard",
                  IF gate = "admin" THEN "Administrator access required."
                  ELSE "Investor access required.", <<>>)

\* The answer to a request whose handler raised: the 500 page; target holds
\* the path that was asked for.
ServerError(s, gate, path) == Response(s, gate, "error", path, "", <<>>)

---------------------------------------------------------------------------
(* The Site validator: app.py lines 453-471 (add) and 510-528 (edit), the  *)
(* same code twice.                                                        *)

LatitudeErrors(form) ==
    LET lat == PyFloat(Get(form, "Latitude", ""))
    IN  IF lat.k = "err" THEN <<"Latitude must be a valid number">>
        ELSE IF lat.k = "num" /\ 0 - 90 <= lat.n /\ lat.n <= 90 THEN <<>>
        ELSE <<"Latitude must be between -90 and 90">>

LongitudeErrors(form) ==
    LET lon == PyFloat(Get(form, "Longitude", ""))
    IN  IF lon.k = "err" THEN <<"Longitude must be a valid number">>
        ELSE IF lon.k = "num" /\ 0 - 180 <= lon.n /\ lon.n <= 180 THEN <<>>
        ELSE <<"Longitude must be between -180 and 180">>

\* float(request.form.get('Production_tonnes','0') or 0), then prod_val < 0:
\* an empty text is replaced by 0, and nan < 0 is false.
ProductionErrors(form) ==
    LET raw == Get(form, "Production_tonnes", "0")
        prod_val == IF raw = "" THEN NumV(0) ELSE PyFloat(raw)
    IN  IF prod_val.k = "err" THEN <<"Production_tonnes must be a number">>
        ELSE IF prod_val.k = "num" /\ prod_val.n < 0
             THEN <<"Production_tonnes must be non-negative">>
        ELSE <<>>

SiteErrors(e, form) ==
    IF e = "sites"
    THEN LatitudeErrors(form) \o LongitudeErrors(form) \o ProductionErrors(form)
    ELSE <<>>

---------------------------------------------------------------------------
(* reload_all_data and log_event. *)

RECURSIVE MergeFrom(_, _, _)
\* sites_df.merge(countries_df, on='CountryID'): an inner join in the order of sites.
MergeFrom(sdf, cdf, i) ==
    IF i > Len(sdf) THEN <<>>
    ELSE LET key == sdf[i].c["CountryID"]
             hits == SelectSeq(cdf, LAMBDA c : key.k = "num" /\ key.n = c.id)
         IN  [j \in DOMAIN hits |-> [site |-> sdf[i], country |-> hits[j]]]
             \o MergeFrom(sdf, cdf, i + 1)

\* merge raises ValueError when the key is a column of strings on one side and
\* a column of numbers on the other.
MergeRaises(sdf, cdf) ==
    /\ cdf # <<>>
    /\ \E i \in DOMAIN sdf : sdf[i].c["CountryID"].k = "str"

\* A row of sites_df.copy(): the site's columns and no others.
NoCountry == [id |-> 0, c |-> <<>>]

\* The caches reload_all_data leaves, reading the files fs; sites_full is the
\* merge, or a copy of sites_df when the merge raises.  (The merges with
\* minerals_df and prod_full are not modelled.)
Reloaded(fs) ==
    LET sdf == ReadCsv(fs["sites"])
        cdf == ReadCsv(fs["countries"])
    IN  [countries |-> cdf,
         sites |-> sdf,
         production |-> ReadCsv(fs["production"]),
         sites_full |-> IF MergeRaises(sdf, cdf)
                        THEN [i \in DOMAIN sdf |-> [site |-> sdf[i], country |-> NoCountry]]
                        ELSE MergeFrom(sdf, cdf, 1)]

AuditHeader == [kind |-> "header", ts |-> 0, Username |-> <<>>, Action |-> "", Path |-> <<>>, Details |-> <<>>]

AuditEntry(ts, username, action, path, details) ==
    [kind |-> "entry", ts |-> ts, Username |-> username, Action |-> action,
     Path |-> path, Details |-> details]

\* A log_event that starts the file afresh.
log_event_replacing(log, username, action, path, details) ==
    <<AuditHeader, AuditEntry(clock, username, action, path, details)>>

\* log_event: one line appended to the audit log, stamped with the current time.
log_event(log, username, action, path, details) ==
    Append(log, AuditEntry(clock, username, action, path, details))

\* Requests that will still write the audit log: the threads past their load.
InFlight == Cardinality({t \in Threads : thr[t].pc # "idle"})

\* The model stops starting requests that write the audit log once the clock,
\* with the writes still owed by the threads in flight, reaches the limit.
Budget(in, n) == clock + InFlight + n <= in.events

\* A thread's handler state: the request (op, e, id, form, sess), the frame as
\* loaded (snap) and the frame the handler is about to save (df).
Idle ==
    [pc |-> "idle", op |-> "", e |-> "", id |-> 0, form |-> <<>>, snap |-> <<>>,
     df |-> <<>>, sess |-> NoSession]

Loaded(op, e, id, form, snap, df, s) ==
    [pc |-> "loaded", op |-> op, e |-> e, id |-> id, form |-> form, snap |-> snap,
     df |-> df, sess |-> s]

AdminPath(e) ==
    CASE e = "sites" -> "/admin/sites"
      [] e = "production" -> "/admin/production"
      [] OTHER -> "/admin/countries"

\* A request that ends without writing anything.
Reply(r) ==
    /\ resp' = r
    /\ UNCHANGED <<files, cache, audit, backups, shares, clock, thr, everAssigned, granted, uploaded, served>>

\* A tail that calls log_event first: when the write of the log fails, nothing
\* has been saved.
SaveReloadLog_LogFirst(t, in, action, details, flash) ==
    LET r == thr[t]
        fs == [files EXCEPT ![r.e] = ToCsv(r.df)]
    IN  /\ clock' = clock + 1
        /\ thr' = [thr EXCEPT ![t] = Idle]
        /\ \E log_fails \in in.logfails :
              IF log_fails
              THEN /\ UNCHANGED <<audit, files, cache>>
                   /\ resp' = ServerError(r.sess, "admin", AdminPath(r.e))
              ELSE /\ files' = fs
                   /\ cache' = Reloaded(fs)
                   /\ audit' = log_event(audit, r.sess.username, action,
                                         <<"admin", r.e, r.op, r.id>>, details)
                   /\ resp' = Response(r.sess, "admin", "redirect", AdminPath(r.e), flash, <<>>)

\* save_csv; reload_all_data(); log_event(...); flash; redirect: the tail of the four
\* writing handlers.  log_event has no handler for a failing write: when it raises,
\* the file is already saved and the request is answered with the 500 page.
SaveReloadLog(t, in, action, details, flash) ==
    LET r == thr[t]
        fs == [files EXCEPT ![r.e] = ToCsv(r.df)]
    IN  /\ files' = fs
        /\ cache' = Reloaded(fs)
        /\ clock' = clock + 1
        /\ thr' = [thr EXCEPT ![t] = Idle]
        /\ \E log_fails \in in.logfails :
              IF log_fails
              THEN /\ UNCHANGED audit
                   /\ resp' = ServerError(r.sess, "admin", AdminPath(r.e))
              ELSE /\ audit' = log_event(audit, r.sess.username, action,
                                         <<"admin", r.e, r.op, r.id>>, details)
                   /\ resp' = Response(r.sess, "admin", "redirect", AdminPath(r.e), flash, <<>>)

---------------------------------------------------------------------------
(* The generic admin handlers.  A handler that writes runs in two steps,   *)
(* its load (with everything it computes from the loaded frame) and its    *)
(* save (save_csv, reload_all_data, log_event, redirect); requests are     *)
(* served by concurrent threads, so other requests may run in between.     *)

\* admin_entity_add up to and including df.loc[len(df)] = row
admin_entity_add(t, in) ==
    /\ thr[t].pc = "idle"
    /\ \E s \in in.sessions, e \in in.entities, method \in in.methods :
         IF admin_required(s) # "run"
         THEN Reply(GateResponse(s, "admin", admin_required(s)))
         ELSE IF e \notin ENTITIES
         THEN Reply(Response(s, "admin", "redirect", "/admin", "Unknown entity", <<>>))
         ELSE IF method = "GET"
         THEN Reply(Response(s, "admin", "render", "admin_edit_generic", "", <<>>))
         ELSE \E form \in in.forms[e] :
                LET df == load_entity_df(e)
                    new_id == NextId(df)
                    row == [id |-> new_id,
                            c |-> [f \in DataFields(e) |-> StrV(Get(form, f, ""))]]
                    errors == SiteErrors(e, form)
                IN  IF errors # <<>>
                    THEN Reply(Response(s, "admin", "render", "admin_edit_generic", "", errors))
                    ELSE /\ Len(df) < MaxRows
                         /\ Budget(in, 1)
                         /\ thr' = [thr EXCEPT ![t] = Loaded("add", e, new_id, form, df, Append(df, row), s)]
                         /\ UNCHANGED <<files, cache, audit, backups, shares, clock, resp,
                                        everAssigned, granted, uploaded, served>>

\* admin_entity_add from save_csv on
admin_entity_add_save(t, in) ==
    /\ thr[t].pc = "loaded"
    /\ thr[t].op = "add"
    /\ SaveReloadLog(t, in, "entity_add", <<"Added", thr[t].e, thr[t].id>>, "Added.")
    /\ everAssigned' = [everAssigned EXCEPT ![thr[t].e] = @ \cup {thr[t].id}]
    /\ UNCHANGED <<backups, shares, granted, uploaded, served>>

\* An edit that changes nothing.
EditedNothing(df, e, obj_id, form) == df

\* An edit that blanks the fields the form leaves out.
EditedBlank(df, e, obj_id, form) ==
    [i \in DOMAIN df |->
        IF df[i].id = obj_id
        THEN [df[i] EXCEPT !.c = [f \in DataFields(e) |-> StrV(Get(form, f, ""))]]
        ELSE df[i]]

\* The frame after the loop df.at[idx,f] = request.form.get(f, df.at[idx,f]).
Edited(df, e, obj_id, form) ==
    LET idx == CHOOSE i \in DOMAIN df :
                   /\ df[i].id = obj_id
                   /\ \A j \in DOMAIN df : df[j].id = obj_id => i <= j
    IN  [df EXCEPT ![idx].c =
            [f \in DataFields(e) |-> IF f \in DOMAIN form THEN StrV(form[f]) ELSE @[f]]]

\* admin_entity_edit up to the validation
admin_entity_edit(t, in) ==
    /\ thr[t].pc = "idle"
    /\ \E s \in in.sessions, e \in in.entities, obj_id \in 1..MaxObjId, method \in in.methods :
         IF admin_required(s) # "run"
         THEN Reply(GateResponse(s, "admin", admin_required(s)))
         ELSE IF e \notin ENTITIES
         THEN Reply(Response(s, "admin", "redirect", "/admin", "Unknown entity", <<>>))
         ELSE IF obj_id \notin Ids(load_entity_df(e))
         THEN Reply(Response(s, "admin", "redirect", AdminPath(e), "Not found", <<>>))
         ELSE IF method = "GET"
         THEN Reply(Response(s, "admin", "render", "admin_edit_generic", "", <<>>))
         ELSE \E form \in in.forms[e] :
                LET errors == SiteErrors(e, form)
                IN  IF errors # <<>>
                    THEN Reply(Response(s, "admin", "render", "admin_edit_generic", "", errors))
                    ELSE /\ Budget(in, 1)
                         /\ thr' = [thr EXCEPT ![t] =
                                Loaded("edit", e, obj_id, form, load_entity_df(e),
                                       Edited(load_entity_df(e), e, obj_id, form), s)]
                         /\ UNCHANGED <<files, cache, audit, backups, shares, clock, resp,
                                        everAssigned, granted, uploaded, served>>

\* admin_entity_edit from save_csv on
admin_entity_edit_save(t, in) ==
    /\ thr[t].pc = "loaded"
    /\ thr[t].op = "edit"
    /\ SaveReloadLog(t, in, "entity_edit", <<"Edited", thr[t].e, thr[t].id>>, "Updated.")
    /\ UNCHANGED <<backups, shares, everAssigned, granted, uploaded, served>>

\* df[df[id_field] != id_value]: CSVStore.delete_by_id and admin_entity_delete
WithoutIdBelow(df, id_value) == SelectSeq(df, LAMBDA r : r.id > id_value)

WithoutId(df, id_value) == SelectSeq(df, LAMBDA r : r.id # id_value)

\* admin_entity_delete up to the filter
admin_entity_delete(t, in) ==
    /\ thr[t].pc = "idle"
    /\ \E s \in in.sessions, e \in in.entities, obj_id \in 1..MaxObjId :
         IF admin_required(s) # "run"
         THEN Reply(GateResponse(s, "admin", admin_required(s)))
         ELSE IF e \notin ENTITIES
         THEN Reply(Response(s, "admin", "redirect", "/admin", "Unknown entity", <<>>))
         ELSE /\ Budget(in, 1)
              /\ thr' = [thr EXCEPT ![t] =
                     Loaded("delete", e, obj_id, <<>>, load_entity_df(e),
                            WithoutId(load_entity_df(e), obj_id), s)]
              /\ UNCHANGED <<files, cache, audit, backups, shares, clock, resp,
                             everAssigned, granted, uploaded, served>>

\* admin_entity_delete from save_csv on
admin_entity_delete_save(t, in) ==
    /\ thr[t].pc = "loaded"
    /\ thr[t].op = "delete"
    /\ SaveReloadLog(t, in, "entity_delete", <<"Deleted", thr[t].e, thr[t].id>>, "Deleted.")
    /\ UNCHANGED <<backups, shares, everAssigned, granted, uploaded, served>>

\* df[df['CountryID'] != country_id]: a missing CountryID differs from every id.
WithoutCountry(df, country_id) ==
    SelectSeq(df, LAMBDA r : ~(r.c["CountryID"].k = "num" /\ r.c["CountryID"].n = country_id))

\* admin_sites_delete_by_country up to the filter
admin_sites_delete_by_country(t, in) ==
    /\ thr[t].pc = "idle"
    /\ \E s \in in.sessions, country_id \in 1..MaxObjId :
         IF admin_required(s) # "run"
         THEN Reply(GateResponse(s, "admin", admin_required(s)))
         ELSE /\ Budget(in, 1)
              /\ thr' = [thr EXCEPT ![t] =
                     Loaded("bulk_delete", "sites", country_id, <<>>, load_entity_df("sites"),
                            WithoutCountry(load_entity_df("sites"), country_id), s)]
              /\ UNCHANGED <<files, cache, audit, backups, shares, clock, resp,
                             everAssigned, granted, uploaded, served>>

\* admin_sites_delete_by_country from save_csv on
admin_sites_delete_by_country_save(t, in) ==
    /\ thr[t].pc = "loaded"
    /\ thr[t].op = "bulk_delete"
    /\ SaveReloadLog(t, in, "entity_bulk_delete",
                     <<"Deleted", Len(thr[t].snap) - Len(thr[t].df), thr[t].id>>,
                     "Deleted site(s) for the country.")
    /\ UNCHANGED <<backups, shares, everAssigned, granted, uploaded, served>>

\* investor_dashboard: the page view is logged, then the page is rendered.
investor_dashboard(in) ==
    \E s \in in.sessions :
        IF investor_required(s) # "run"
        THEN Reply(GateResponse(s, "investor", investor_required(s)))
        ELSE /\ Budget(in, 1)
             /\ clock' = clock + 1
             /\ \E log_fails \in in.logfails :
                   IF log_fails
                   THEN /\ UNCHANGED audit
                        /\ resp' = ServerError(s, "investor", "/investor")
                   ELSE /\ audit' = log_event(audit, s.username, "page_view", <<"investor">>,
                                              <<"Visited investor dashboard">>)
                        /\ resp' = Response(s, "investor", "render", "investor_dashboard",
                                            "", <<>>)
             /\ UNCHANGED <<files, cache, backups, shares, thr, everAssigned, granted, uploaded, served>>

\* f.readlines()[-200:]
TailLimit == 200

\* seq[-n:]
LastN(seq, n) == SubSeq(seq, IF Len(seq) > n THEN Len(seq) - n + 1 ELSE 1, Len(seq))

\* seq[1:]
Rest(seq) == IF seq = <<>> THEN <<>> ELSE Tail(seq)

\* len(parts) >= 4 for a line split at '","': true of the lines log_event
\* writes, false of the header line, which has no quoted field.
HasFields(ln) == ln.kind = "entry"

\* lines = f.readlines()[-200:], then the loop over lines[1:] ("skip header")
\* that keeps the lines with enough fields.
DashboardLogs(log) == SelectSeq(Rest(LastN(log, TailLimit)), HasFields)

\* admin_dashboard: the audit log and the users are read and rendered.
admin_dashboard(in) ==
    \E s \in in.sessions :
        IF admin_required(s) # "run"
        THEN Reply(GateResponse(s, "admin", admin_required(s)))
        ELSE /\ served' = DashboardLogs(audit)
             /\ resp' = Response(s, "admin", "render", "admin_dashboard", "", <<>>)
             /\ UNCHANGED <<files, cache, audit, backups, shares, clock, thr, everAssigned,
                            granted, uploaded>>

\* admin_entity_list
admin_entity_list(in) ==
    \E s \in in.sessions, e \in in.entities :
        IF admin_required(s) # "run"
        THEN Reply(GateResponse(s, "admin", admin_required(s)))
        ELSE IF e \notin ENTITIES
        THEN Reply(Response(s, "admin", "redirect", "/admin", "Unknown entity", <<>>))
        ELSE Reply(Response(s, "admin", "render", "admin_list", "", <<>>))

\* session.get('username', 'anonymous')
SessionUser(s) == IF s.logged_in THEN s.username ELSE Tok("anonymous")

\* logout: the event is logged for whoever asks, then the session is dropped and
\* the client is sent to /login; when log_event raises, neither happens.
logout(in) ==
    \E s \in in.sessions :
        /\ Budget(in, 1)
        /\ clock' = clock + 1
        /\ \E log_fails \in in.logfails :
              IF log_fails
              THEN /\ UNCHANGED audit
                   /\ resp' = ServerError(s, "none", "/logout")
              ELSE /\ audit' = log_event(audit, SessionUser(s), "logout", <<"logout">>,
                                         <<"User logged out">>)
                   /\ resp' = Response(s, "none", "redirect", "/login", "", <<>>)
        /\ UNCHANGED <<files, cache, backups, shares, thr, everAssigned, granted, uploaded, served>>

\* users_df joined with roles_df: the accounts the application is started with.
Users ==
    { [Username |-> Tok("admin"), PasswordHash |-> "admin-pw", RoleName |-> "Administrator"],
      [Username |-> Tok("ivy"), PasswordHash |-> "ivy-pw", RoleName |-> "Investor"] }

\* login: the outcome is logged; a matching password fills the session, which
\* travels back to the client in the response.
login(in) ==
    \E s \in in.sessions, method \in in.methods,
       username \in in.usernames, password \in in.passwords :
        IF method = "GET"
        THEN Reply(Response(s, "none", "render", "login", "", <<>>))
        ELSE LET user == {u \in Users : u.Username = username}
                 known == user # {}
                 matches == known /\ (CHOOSE u \in user : TRUE).PasswordHash = password
                 action == IF matches THEN "login_success" ELSE "login_failed"
                 details == IF matches THEN <<"Successful login">>
                            ELSE IF known THEN <<"Invalid password">>
                            ELSE <<"Unknown username">>
             IN  /\ Budget(in, 1)
                 /\ clock' = clock + 1
                 /\ \E log_fails \in in.logfails :
                       IF log_fails
                       THEN /\ UNCHANGED audit
                            /\ resp' = ServerError(s, "none", "/login")
                       ELSE /\ audit' = log_event(audit, username, action, <<"login">>, details)
                            /\ resp' = IF matches
                                       THEN Response(s, "none", "redirect", "/dashboard", "", <<>>)
                                       ELSE Response(s, "none", "render", "login",
                                                     IF known THEN "Invalid password."
                                                     ELSE "Invalid username.", <<>>)
                 /\ UNCHANGED <<files, cache, backups, shares, thr, everAssigned, granted,
                                uploaded, served>>

\* The files a client uploads: none, a CSV file pandas reads, one it cannot read.
Uploads == {"", "data.csv", "broken.csv"}

\* admin_dataset_upload, for CSV files: f.save(target) replaces the stored file,
\* then read_csv fills uploaded_df or raises.
admin_dataset_upload(in) ==
    \E s \in in.sessions, method \in in.methods, f \in in.uploads :
        IF admin_required(s) # "run"
        THEN Reply(GateResponse(s, "admin", admin_required(s)))
        ELSE IF method = "GET"
        THEN Reply(Response(s, "admin", "render", "admin_dataset_upload", "", <<>>))
        ELSE IF f = ""
        THEN Reply(Response(s, "admin", "redirect", "/admin/dataset/upload",
                            "No file uploaded.", <<>>))
        ELSE IF f = "broken.csv"
        THEN /\ uploaded' = [uploaded EXCEPT !.file = f]
             /\ resp' = Response(s, "admin", "redirect", "/admin/dataset/upload",
                                 "Failed to process file", <<>>)
             /\ UNCHANGED <<files, cache, audit, backups, shares, clock, thr, everAssigned,
                            granted, served>>
        ELSE /\ Budget(in, 1)
             /\ uploaded' = [file |-> f, df |-> f]
             /\ clock' = clock + 1
             /\ \E log_fails \in in.logfails :
                   IF log_fails
                   THEN /\ UNCHANGED audit
                        /\ resp' = Response(s, "admin", "redirect", "/admin/dataset/upload",
                                            "Failed to process file", <<>>)
                   ELSE /\ audit' = log_event(audit, s.username, "dataset_upload",
                                              <<"admin", "dataset", "upload">>, <<"Uploaded", f>>)
                        /\ resp' = Response(s, "admin", "redirect", "/admin",
                                            "Dataset uploaded successfully.", <<>>)
             /\ UNCHANGED <<files, cache, backups, shares, thr, everAssigned, granted, served>>

---------------------------------------------------------------------------
(* The share registry, dataset_shares.csv.  A text is the sequence of its  *)
(* pieces: the quote, the comma and the newline are pieces of their own,   *)
(* every other piece is a run of ordinary characters.                      *)

IsAt(s, sep, i) == i + Len(sep) - 1 <= Len(s) /\ SubSeq(s, i, i + Len(sep) - 1) = sep

RECURSIVE Split(_, _)
\* str.split(sep): the parts between the occurrences of sep, found left to right.
Split(s, sep) ==
    IF \E i \in 1..Len(s) : IsAt(s, sep, i)
    THEN LET i == CHOOSE k \in 1..Len(s) :
                      IsAt(s, sep, k) /\ \A j \in 1..(k - 1) : ~IsAt(s, sep, j)
         IN  <<SubSeq(s, 1, i - 1)>> \o Split(SubSeq(s, i + Len(sep), Len(s)), sep)
    ELSE <<s>>

RECURSIVE Strip(_, _)
\* str.strip(chars): the characters of chars removed from both ends.
Strip(s, chars) ==
    IF s # <<>> /\ Head(s) \in chars THEN Strip(Tail(s), chars)
    ELSE IF s # <<>> /\ s[Len(s)] \in chars THEN Strip(SubSeq(s, 1, Len(s) - 1), chars)
    ELSE s

RECURSIVE ReadLines(_)
\* f.readlines(): the lines of the text, each with its newline.
ReadLines(s) ==
    IF \E i \in 1..Len(s) : s[i] = NL
    THEN LET i == CHOOSE k \in 1..Len(s) : s[k] = NL /\ \A j \in 1..(k - 1) : s[j] # NL
         IN  <<SubSeq(s, 1, i)>> \o ReadLines(SubSeq(s, i + 1, Len(s)))
    ELSE IF s = <<>> THEN <<>> ELSE <<s>>

\* The header line written when the registry is created.
ShareHeader == <<"SharedType", C, "SharedValue", C, "SharedBy", C, "Timestamp", NL>>

\* add_dataset_share: the line f'"{shared_type}","{shared_value}","{shared_by}","{ts}"\n'
\* appended to the registry text.
add_dataset_share(text, shared_type, shared_value, shared_by) ==
    text \o <<Q>> \o shared_type \o <<Q, C, Q>> \o shared_value \o <<Q, C, Q>>
         \o shared_by \o <<Q, C, Q, ToString(clock), Q, NL>>

\* [p.strip('"') for p in ln.strip().split('","')]
ShareParts(ln) ==
    LET raw == Split(Strip(ln, {NL, " "}), <<Q, C, Q>>)
    IN  [i \in DOMAIN raw |-> Strip(raw[i], {Q})]

\* is_dataset_shared_for_user on the registry text; io is what the file system
\* answers: "ok", "missing" (os.path.exists is false) or "error" (the read raises).
is_dataset_shared_for_user(username, role, text, io) ==
    IF role = Tok("Administrator") THEN TRUE
    ELSE IF io # "ok" THEN FALSE
    ELSE LET all == ReadLines(text)
             lines == IF all = <<>> THEN <<>> ELSE Tail(all)
         IN  \E i \in DOMAIN lines :
                LET parts == ShareParts(lines[i])
                IN  /\ Len(parts) >= 4
                    /\ \/ parts[1] = Tok("role") /\ parts[2] = role
                       \/ parts[1] = Tok("user") /\ parts[2] = username

\* dataset_view
dataset_view(in) ==
    \E s \in in.sessions, io \in in.ios :
        IF ~s.logged_in
        THEN Reply(Response(s, "auth", "redirect", "/login", "", <<>>))
        ELSE IF ~is_dataset_shared_for_user(SessionUser(s), Tok(s.role), shares, io)
        THEN Reply(Response(s, "auth", "redirect", "/dashboard",
                            "Dataset not shared with you.", <<>>))
        ELSE /\ Budget(in, 1)
             /\ clock' = clock + 1
             /\ \E log_fails \in in.logfails :
                   IF log_fails
                   THEN /\ UNCHANGED audit
                        /\ resp' = ServerError(s, "auth", "/dataset")
                   ELSE /\ audit' = log_event(audit, SessionUser(s), "page_view", <<"dataset">>,
                                              <<"Viewed uploaded dataset">>)
                        /\ resp' = Response(s, "auth", "render", "dataset", "", <<>>)
             /\ UNCHANGED <<files, cache, backups, shares, thr, everAssigned, granted, uploaded, served>>

\* admin_dataset_share; granted remembers the grants that were performed.
admin_dataset_share(in) ==
    \E s \in in.sessions, method \in in.methods,
       shared_type \in in.share_types, shared_value \in in.share_values :
        IF admin_required(s) # "run"
        THEN Reply(GateResponse(s, "admin", admin_required(s)))
        ELSE IF method = "GET"
        THEN Reply(Response(s, "admin", "render", "admin_dataset_share", "", <<>>))
        ELSE /\ Budget(in, 1)
             /\ shares' = add_dataset_share(shares, shared_type, shared_value, s.username)
             /\ clock' = clock + 1
             /\ granted' = granted \cup {<<shared_type, shared_value>>}
             /\ \E log_fails \in in.logfails :
                   IF log_fails
                   THEN /\ UNCHANGED audit
                        /\ resp' = ServerError(s, "admin", "/admin/dataset/share")
                   ELSE /\ audit' = log_event(audit, s.username, "dataset_share",
                                              <<"admin", "dataset", "share">>,
                                              <<"Shared dataset with", shared_type, shared_value>>)
                        /\ resp' = Response(s, "admin", "redirect", "/admin",
                                            "Dataset shared.", <<>>)
             /\ UNCHANGED <<files, cache, backups, thr, everAssigned, uploaded, served>>

---------------------------------------------------------------------------
(* Clearing the audit log.  fail names the first file operation of the     *)
(* handler that raises: none of them, the opening of the two files of the  *)
(* copy, the copy itself, the reopening of the log for writing, the        *)
(* writing of its two lines, or the final log_event.                       *)

ClearedFlash == "Audit log cleared (backup created)."
FailedFlash == "Failed to clear audit log"
\* The success flash is issued before log_event is called.
ClearedThenFailedFlash == "Audit log cleared (backup created). Failed to clear audit log"

Failures == {"none", "backup_open", "backup_write", "log_open", "log_write", "log_event"}

Backup(name, lines) == [name |-> name, lines |-> lines]

admin_audit_clear(in) ==
    \E s \in in.sessions, fail \in in.fails :
        IF admin_required(s) # "run"
        THEN Reply(GateResponse(s, "admin", admin_required(s)))
        ELSE LET name == clock
                 path == <<"admin", "audit", "clear">>
                 cleared == <<AuditHeader,
                              AuditEntry(clock, s.username, "audit_cleared", path,
                                         <<"Cleared recent audit log and backed up to", name>>)>>
                 logged == Append(cleared,
                                  AuditEntry(clock + 1, s.username, "audit_clear", path,
                                             <<"Backup", name>>))
             IN  /\ Budget(in, 2)
                 /\ clock' = clock + 2
                 /\ CASE fail = "backup_open" ->
                           /\ UNCHANGED <<audit, backups>>
                           /\ resp' = Response(s, "admin", "redirect", "/admin", FailedFlash, <<>>)
                      [] fail = "backup_write" ->
                           /\ \E k \in 0..(Len(audit) - 1) :
                                backups' = Append(backups, Backup(name, SubSeq(audit, 1, k)))
                           /\ UNCHANGED audit
                           /\ resp' = Response(s, "admin", "redirect", "/admin", FailedFlash, <<>>)
                      [] fail = "log_open" ->
                           /\ backups' = Append(backups, Backup(name, audit))
                           /\ UNCHANGED audit
                           /\ resp' = Response(s, "admin", "redirect", "/admin", FailedFlash, <<>>)
                      [] fail = "log_write" ->
                           /\ backups' = Append(backups, Backup(name, audit))
                           /\ audit' \in {<<>>, <<AuditHeader>>}
                           /\ resp' = Response(s, "admin", "redirect", "/admin", FailedFlash, <<>>)
                      [] fail = "log_event" ->
                           /\ backups' = Append(backups, Backup(name, audit))
                           /\ audit' = cleared
                           /\ resp' = Response(s, "admin", "redirect", "/admin",
                                               ClearedThenFailedFlash, <<>>)
                      [] fail = "none" ->
                           /\ backups' = Append(backups, Backup(name, audit))
                           /\ audit' = logged
                           /\ resp' = Response(s, "admin", "redirect", "/admin", ClearedFlash, <<>>)
                 /\ UNCHANGED <<files, cache, shares, thr, everAssigned, granted, uploaded, served>>

---------------------------------------------------------------------------
(* Initial states: the files the application is started on. *)

SiteRow(id, country, lat, lon, prod) ==
    [id |-> id,
     c |-> [CountryID |-> country, Latitude |-> lat, Longitude |-> lon,
            Production_tonnes |-> prod]]

CountryRow(id, name) == [id |-> id, c |-> [CountryName |-> name]]

ProductionRow(id, prod) == [id |-> id, c |-> [Production_tonnes |-> prod]]

InitFiles ==
    { [countries |-> <<>>, sites |-> <<>>, production |-> <<>>],
      [countries |-> <<CountryRow(1, "Testland"), CountryRow(2, "Otherland")>>,
       sites |-> <<SiteRow(1, "1", "45", "100", "7"), SiteRow(2, "1", "45", "100", "9")>>,
       production |-> <<ProductionRow(1, "7")>>] }

Init ==
    /\ files \in InitFiles
    /\ cache = Reloaded(files)
    /\ audit = <<AuditHeader>>
    /\ backups = <<>>
    /\ shares = ShareHeader
    /\ clock = 0
    /\ thr = [t \in Threads |-> Idle]
    /\ resp = NoResponse
    /\ everAssigned = [e \in ENTITIES |-> {files[e][i].id : i \in DOMAIN files[e]}]
    /\ granted = {}
    /\ uploaded = [file |-> "", df |-> ""]
    /\ served = <<>>

---------------------------------------------------------------------------
(* The record store under concurrent administrators: well-formed forms     *)
(* posted by an administrator on either thread.                            *)

\* The forms with every field present and a number in every numeric field.
NumericForms ==
    [e \in ENTITIES |->
        {fm \in Forms[e] :
            /\ DOMAIN fm = DataFields(e)
            /\ e = "sites" => IsNumeral(fm["Production_tonnes"])
            /\ SiteErrors(e, fm) = <<>>}]

StoreInputs ==
    [sessions |-> {Administrator}, entities |-> {"countries", "sites"}, methods |-> {"POST"},
     forms |-> NumericForms, events |-> MaxEvents, logfails |-> {FALSE}]

Next ==
    \/ \E t \in Threads : admin_entity_add(t, StoreInputs)
    \/ \E t \in Threads : admin_entity_add_save(t, StoreInputs)
    \/ \E t \in Threads : admin_entity_edit(t, StoreInputs)
    \/ \E t \in Threads : admin_entity_edit_save(t, StoreInputs)
    \/ \E t \in Threads : admin_entity_delete(t, StoreInputs)
    \/ \E t \in Threads : admin_entity_delete_save(t, StoreInputs)
    \/ \E t \in Threads : admin_sites_delete_by_country(t, StoreInputs)
    \/ \E t \in Threads : admin_sites_delete_by_country_save(t, StoreInputs)

Spec == Init /\ [][Next]_vars

---------------------------------------------------------------------------
(* The validator: one administrator submitting every form of the           *)
(* vocabulary to the add and edit handlers, one request at a time.         *)

FormInputs ==
    [sessions |-> {Administrator}, entities |-> {"sites"}, methods |-> {"POST"},
     forms |-> Forms, events |-> MaxEvents, logfails |-> {FALSE}]

NextForm ==
    \/ admin_entity_add(1, FormInputs)
    \/ admin_entity_add_save(1, FormInputs)
    \/ admin_entity_edit(1, FormInputs)
    \/ admin_entity_edit_save(1, FormInputs)

SpecForm == Init /\ [][NextForm]_vars

---------------------------------------------------------------------------
(* Claims about the validator and the stored sites (SpecForm).             *)

\* What the specification calls a valid Site write: Latitude a number in
\* [-90,90], Longitude a number in [-180,180], Production_tonnes a number >= 0,
\* where an empty or absent Production_tonnes stands for 0.
ValidSiteForm(form) ==
    /\ "Latitude" \in DOMAIN form /\ IsNumeral(form["Latitude"])
    /\ 0 - 90 <= NumOf(form["Latitude"]) /\ NumOf(form["Latitude"]) <= 90
    /\ "Longitude" \in DOMAIN form /\ IsNumeral(form["Longitude"])
    /\ 0 - 180 <= NumOf(form["Longitude"]) /\ NumOf(form["Longitude"]) <= 180
    /\ \/ "Production_tonnes" \notin DOMAIN form
       \/ form["Production_tonnes"] = ""
       \/ IsNumeral(form["Production_tonnes"]) /\ NumOf(form["Production_tonnes"]) >= 0

\* C1: a Site add or edit whose Latitude, Longitude or Production_tonnes is out
\* of bounds or not a number is answered with a non-empty error list and leaves
\* the stored Site collection as it was.  A request the validator turns down
\* ends in the step that receives it, without a write; the requests that go on
\* to their save are the ones the property looks at.
C1_InvalidWriteRejected ==
    [][\A t \in Threads :
          ( /\ thr[t].pc = "loaded"
            /\ thr'[t].pc = "idle"
            /\ thr[t].e = "sites"
            /\ thr[t].op \in {"add", "edit"}
            /\ ~ValidSiteForm(thr[t].form) )
          => (resp'.errors # <<>> /\ files'["sites"] = files["sites"])]_vars

\* A stored Site row within the bounds of the data model.
ValidSiteRow(r) ==
    /\ r.c["Latitude"].k = "num"
    /\ 0 - 90 <= r.c["Latitude"].n /\ r.c["Latitude"].n <= 90
    /\ r.c["Longitude"].k = "num"
    /\ 0 - 180 <= r.c["Longitude"].n /\ r.c["Longitude"].n <= 180
    /\ r.c["Production_tonnes"].k = "num"
    /\ r.c["Production_tonnes"].n >= 0

\* C2: every stored Site record has Latitude in [-90,90], Longitude in
\* [-180,180] and a Production_tonnes that is a number >= 0, whatever add and
\* edit requests were made.
C2_StoredSitesValid ==
    \A i \in DOMAIN files["sites"] : ValidSiteRow(ReadCsv(files["sites"])[i])

---------------------------------------------------------------------------
(* Claims about identifiers and deletion (Spec).                           *)

\* The entity the last completed request appended a record to, if it was an add.
JustAdded(e) == resp.flash = "Added." /\ resp.target = AdminPath(e)

\* C3 as stated: after an append, next_id is strictly greater than every id
\* ever assigned in the entity, ids of deleted records included.
C3_NextIdAboveEverAssigned ==
    \A e \in ENTITIES :
        JustAdded(e) => \A i \in everAssigned[e] : NextId(load_entity_df(e)) > i

\* C3 as amended: after an append, next_id is strictly greater than the id of
\* every record the entity holds at that moment.
C3_NextIdAboveStored ==
    \A e \in ENTITIES :
        JustAdded(e) => \A i \in Ids(load_entity_df(e)) : NextId(load_entity_df(e)) > i

\* An append has completed in an entity one of whose earlier ids is gone.
C3_Witness ==
    \E e \in ENTITIES :
        JustAdded(e) /\ files[e] # <<>> /\ everAssigned[e] \ Ids(files[e]) # {}

\* C4: no two stored records of a collection have the same identifier, in any
\* state, whatever the interleaving of the writers' loads and saves.
C4_IdsUnique ==
    \A e \in ENTITIES : Cardinality(Ids(files[e])) = Len(files[e])

\* Two adds to one entity have completed that were given the same id: each
\* loaded the collection before the other saved.
C4_Witness ==
    \E i, j \in DOMAIN audit :
        /\ i < j
        /\ audit[i].Action = "entity_add"
        /\ audit[j].Action = "entity_add"
        /\ audit[i].Details = audit[j].Details

\* C5: when a delete of id v saves, the stored collection holds no record with
\* id v; and if the collection the delete loaded held none, the collection it
\* stores is the collection it loaded, and the request is answered normally.
C5_DeleteById ==
    [][\A t \in Threads :
          (thr[t].pc = "loaded" /\ thr[t].op = "delete" /\ thr'[t].pc = "idle")
          => LET e == thr[t].e
                 v == thr[t].id
             IN  /\ v \notin Ids(ReadCsv(files'[e]))
                 /\ v \notin Ids(thr[t].snap)
                      => (ReadCsv(files'[e]) = thr[t].snap /\ resp'.kind = "redirect")]_vars

\* A delete has completed that named an id the collection, which is not empty,
\* never held.
C5_Witness ==
    LET last == audit[Len(audit)]
    IN  /\ last.Action = "entity_delete"
        /\ resp.flash = "Deleted."
        /\ last.Details[3] \notin everAssigned[last.Details[2]]
        /\ files[last.Details[2]] # <<>>

---------------------------------------------------------------------------
(* The gates: every session of the vocabulary sends requests to the        *)
(* role-gated routes, one request at a time.                               *)

GateInputs ==
    [sessions |-> Sessions, entities |-> {"countries", "bogus"}, methods |-> {"GET", "POST"},
     forms |-> [e \in ENTITIES |-> {fm \in NumericForms[e] : e = "countries"}],
     events |-> MaxEvents, share_types |-> {Tok("role")}, share_values |-> {Tok("Investor")},
     fails |-> {"none"}, logfails |-> {FALSE}, uploads |-> {"", "data.csv"}]

NextGate ==
    \/ admin_entity_add(1, GateInputs)
    \/ admin_entity_add_save(1, GateInputs)
    \/ admin_entity_edit(1, GateInputs)
    \/ admin_entity_edit_save(1, GateInputs)
    \/ admin_entity_delete(1, GateInputs)
    \/ admin_entity_delete_save(1, GateInputs)
    \/ admin_sites_delete_by_country(1, GateInputs)
    \/ admin_sites_delete_by_country_save(1, GateInputs)
    \/ admin_entity_list(GateInputs)
    \/ admin_dashboard(GateInputs)
    \/ admin_dataset_share(GateInputs)
    \/ admin_audit_clear(GateInputs)
    \/ admin_dataset_upload(GateInputs)
    \/ investor_dashboard(GateInputs)

SpecGate == Init /\ [][NextGate]_vars

\* The gate of the last answered request turned the request away.
TurnedAway(r, target) ==
    /\ r.gate \in {"admin", "investor"}
    /\ r.kind = "redirect"
    /\ r.target = target

\* C10: on a role-gated route, a request without an authenticated session is
\* redirected to /login, a request of an authenticated session whose role is
\* neither allowed by the route nor Administrator is redirected to /dashboard
\* with a flash message, and in both cases nothing the handler body does
\* happens: no file, cache, log, backup or share changes and no handler is left
\* in flight; an Administrator session is never turned away by either gate,
\* and only Administrator sessions are ever inside an administrator handler.
C10_Gates ==
    [][ /\ resp' # resp /\ resp'.gate \in {"admin", "investor"} =>
            LET s == resp'.sess
                allowed == IF resp'.gate = "admin" THEN {"Administrator"}
                           ELSE {"Investor", "Administrator"}
                untouched == UNCHANGED <<files, cache, audit, backups, shares, clock, thr,
                                         everAssigned, granted, uploaded, served>>
            IN  /\ ~s.logged_in => TurnedAway(resp', "/login") /\ untouched
                /\ s.logged_in /\ s.role \notin allowed =>
                       TurnedAway(resp', "/dashboard") /\ resp'.flash # "" /\ untouched
                /\ s.logged_in /\ s.role = "Administrator" =>
                       resp'.target \notin {"/login", "/dashboard"}
        /\ \A t \in Threads :
              thr'[t].pc # "idle" => thr'[t].sess.logged_in /\ thr'[t].sess.role = "Administrator"
      ]_vars

\* An analyst was turned away from the investor page, after an administrator
\* had added a record.
C10_Witness ==
    /\ resp.gate = "investor"
    /\ resp.sess.logged_in /\ resp.sess.role = "Analyst"
    /\ TurnedAway(resp, "/dashboard") /\ resp.flash # ""
    /\ \E i \in DOMAIN audit : audit[i].Action = "entity_add"

---------------------------------------------------------------------------
(* The share registry: an administrator grants, users look at the dataset. *)

MaxShareEvents == 3

\* A user name that ends with a quote is among the names.
ShareUsers == {Tok("ivy"), <<"ivy", Q>>, Tok("ann")}

ShareRoles == {Tok("Administrator"), Tok("Investor"), Tok("Analyst")}

ShareIos == {"ok", "missing", "error"}

ShareInputs ==
    [sessions |-> {Administrator,
                   [logged_in |-> TRUE, username |-> Tok("ivy"), role |-> "Investor"],
                   [logged_in |-> TRUE, username |-> <<"ivy", Q>>, role |-> "Analyst"],
                   [logged_in |-> TRUE, username |-> Tok("ann"), role |-> "Analyst"]},
     methods |-> {"POST"}, events |-> MaxShareEvents,
     share_types |-> {Tok("role"), Tok("user")},
     share_values |-> {Tok("Investor"), Tok("ivy"), <<"ivy", Q>>},
     ios |-> ShareIos, fails |-> {"none"}, logfails |-> {FALSE}]

NextShare ==
    \/ admin_dataset_share(ShareInputs)
    \/ dataset_view(ShareInputs)
    \/ admin_audit_clear(ShareInputs)
    \/ logout(ShareInputs)

SpecShare == Init /\ [][NextShare]_vars

\* C6: for every user name, every role and every answer of the file system,
\* is_visible is true for the role Administrator, and for any other role it is
\* true exactly when the registry is readable and a granted entry names the
\* role or the user name.
C6_VisibleIffGranted ==
    \A u \in ShareUsers, r \in ShareRoles, io \in ShareIos :
        is_dataset_shared_for_user(u, r, shares, io)
            <=> \/ r = Tok("Administrator")
                \/ /\ io = "ok"
                   /\ \/ <<Tok("role"), r>> \in granted
                      \/ <<Tok("user"), u>> \in granted

\* C7: once a grant to a role or to a user has been performed, is_visible is
\* true for that role with any user name, and for that user with any role, in
\* every later state; for the role Administrator it is true in every state.
C7_GrantedStaysVisible ==
    /\ \A g \in granted :
          /\ g[1] = Tok("role") => \A u \in ShareUsers :
                                      is_dataset_shared_for_user(u, g[2], shares, "ok")
          /\ g[1] = Tok("user") => \A r \in ShareRoles :
                                      is_dataset_shared_for_user(g[2], r, shares, "ok")
    /\ \A u \in ShareUsers : is_dataset_shared_for_user(u, Tok("Administrator"), shares, "ok")

---------------------------------------------------------------------------
(* The audit log: requests append to it, an administrator clears it, and   *)
(* the file system may fail at any write to the log and at any step of the *)
(* clear.                                                                  *)

AuditInputs ==
    [sessions |-> {Administrator,
                   [logged_in |-> TRUE, username |-> Tok("ivy"), role |-> "Investor"]},
     events |-> MaxAuditEvents, fails |-> Failures, logfails |-> BOOLEAN,
     entities |-> {"countries"}, methods |-> {"POST"},
     forms |-> [e \in ENTITIES |-> {fm \in NumericForms[e] : e = "countries"}],
     usernames |-> {Tok("ivy")}, passwords |-> {"ivy-pw", "guess"}]

NextAudit ==
    \/ logout(AuditInputs)
    \/ investor_dashboard(AuditInputs)
    \/ admin_dashboard(AuditInputs)
    \/ admin_audit_clear(AuditInputs)
    \/ login(AuditInputs)
    \/ admin_entity_add(1, AuditInputs)
    \/ admin_entity_add_save(1, AuditInputs)

SpecAudit == Init /\ [][NextAudit]_vars

\* The step is a clear that got past the gate.
ClearStep ==
    /\ clock' = clock + 2
    /\ resp'.target = "/admin"
    /\ resp'.flash \in {ClearedFlash, FailedFlash, ClearedThenFailedFlash}

NewBackupHolds(lines) ==
    /\ Len(backups') = Len(backups) + 1
    /\ backups'[Len(backups')].lines = lines

NoOldEntry(old, new) ==
    \A i \in 2..Len(old) : \A j \in 1..Len(new) : new[j] # old[i]

\* C8: after a clear that reported success, the backup holds the log as it was
\* before the clear, the live log is the header followed by exactly one entry,
\* the one recording the clear, and no earlier entry is in the live log.
C8_ClearLeavesOneEntry ==
    [][ ClearStep /\ resp'.flash = ClearedFlash =>
            /\ NewBackupHolds(audit)
            /\ Len(audit') = 2
            /\ audit'[1] = AuditHeader
            /\ audit'[2].Action = "audit_cleared"
            /\ NoOldEntry(audit, audit')
      ]_vars

\* The live log after a clear that went through: the header, the entry
\* recording the clear, whatever the request logged after it, nothing older.
ClearedLog(old, new) ==
    /\ Len(new) >= 2
    /\ new[1] = AuditHeader
    /\ new[2].Action = "audit_cleared"
    /\ NoOldEntry(old, new)

\* C9: whatever step of a clear fails, either the backup holds the whole log
\* as it was and the live log is in its cleared state, or the live log is
\* exactly what it was; and a clear that did not achieve both reports an
\* error and not success.
C9_ClearAllOrNothing ==
    [][ ClearStep =>
            /\ \/ audit' = audit
               \/ NewBackupHolds(audit) /\ ClearedLog(audit, audit')
            /\ ~(NewBackupHolds(audit) /\ ClearedLog(audit, audit')) => resp'.flash = FailedFlash
      ]_vars

---------------------------------------------------------------------------
(* Claims about the error list of the validator (SpecForm).                *)

LatitudeRule(form) ==
    /\ "Latitude" \in DOMAIN form /\ IsNumeral(form["Latitude"])
    /\ 0 - 90 <= NumOf(form["Latitude"]) /\ NumOf(form["Latitude"]) <= 90

LongitudeRule(form) ==
    /\ "Longitude" \in DOMAIN form /\ IsNumeral(form["Longitude"])
    /\ 0 - 180 <= NumOf(form["Longitude"]) /\ NumOf(form["Longitude"]) <= 180

ProductionRule(form) ==
    \/ "Production_tonnes" \notin DOMAIN form
    \/ form["Production_tonnes"] = ""
    \/ IsNumeral(form["Production_tonnes"]) /\ NumOf(form["Production_tonnes"]) >= 0

\* No message when the rule is met, one of the rule's messages when it is not.
MessagesFor(met, messages) == IF met THEN {<<>>} ELSE {<<m>> : m \in messages}

\* C11: for every form, the error list of a Site add or edit is one message
\* for each violated rule, in the order Latitude, Longitude, Production_tonnes,
\* whatever the other rules say; a write goes on to its save only with an
\* empty list, and a request answered with errors is re-rendered, not saved.
C11_OneMessagePerRule ==
    /\ \A form \in Forms["sites"] :
          \E a \in MessagesFor(LatitudeRule(form),
                               {"Latitude must be a valid number",
                                "Latitude must be between -90 and 90"}),
             b \in MessagesFor(LongitudeRule(form),
                               {"Longitude must be a valid number",
                                "Longitude must be between -180 and 180"}),
             c \in MessagesFor(ProductionRule(form),
                               {"Production_tonnes must be a number",
                                "Production_tonnes must be non-negative"}) :
            SiteErrors("sites", form) = a \o b \o c
    /\ \A t \in Threads :
          thr[t].pc = "loaded" /\ thr[t].e = "sites" /\ thr[t].op \in {"add", "edit"}
              => SiteErrors("sites", thr[t].form) = <<>>
    /\ resp.errors # <<>> => resp.kind = "render"

---------------------------------------------------------------------------
(* Production statistics: an administrator adds and edits records of the   *)
(* production entity, one request at a time.                               *)

ProductionInputs ==
    [sessions |-> {Administrator}, entities |-> {"production"}, methods |-> {"GET", "POST"},
     forms |-> Forms, events |-> MaxEvents, logfails |-> {FALSE}]

NextProduction ==
    \/ admin_entity_add(1, ProductionInputs)
    \/ admin_entity_add_save(1, ProductionInputs)
    \/ admin_entity_edit(1, ProductionInputs)
    \/ admin_entity_edit_save(1, ProductionInputs)
    \/ admin_entity_delete(1, ProductionInputs)
    \/ admin_entity_delete_save(1, ProductionInputs)

SpecProduction == Init /\ [][NextProduction]_vars

\* C12: every stored ProductionStat record has a Production_tonnes that is a
\* number >= 0 (a missing value is let through here): the adds and edits that
\* would store a negative number or a text are rejected.
C12_StoredProductionValid ==
    \A i \in DOMAIN files["production"] :
        LET v == ReadCsv(files["production"])[i].c["Production_tonnes"]
        IN  \/ v.k = "num" /\ v.n >= 0
            \/ v.k = "nan"

---------------------------------------------------------------------------
(* All routes: an administrator, an investor and a client without a        *)
(* session send requests to every modelled route, one request at a time.   *)

RouteInputs ==
    [sessions |-> {NoSession, Administrator,
                   [logged_in |-> TRUE, username |-> Tok("ivy"), role |-> "Investor"]},
     entities |-> {"countries"}, methods |-> {"POST"},
     forms |-> [e \in ENTITIES |-> {fm \in NumericForms[e] : e = "countries"}],
     events |-> MaxEvents, share_types |-> {Tok("role")}, share_values |-> {Tok("Investor")},
     fails |-> {"none"}, logfails |-> {FALSE}, ios |-> {"ok"},
     usernames |-> {Tok("admin"), Tok("ghost")}, passwords |-> {"admin-pw", "guess"},
     uploads |-> {"data.csv", "broken.csv"}]

NextRoutes ==
    \/ admin_entity_add(1, RouteInputs)
    \/ admin_entity_add_save(1, RouteInputs)
    \/ admin_entity_edit(1, RouteInputs)
    \/ admin_entity_edit_save(1, RouteInputs)
    \/ admin_entity_delete(1, RouteInputs)
    \/ admin_entity_delete_save(1, RouteInputs)
    \/ admin_sites_delete_by_country(1, RouteInputs)
    \/ admin_sites_delete_by_country_save(1, RouteInputs)
    \/ admin_entity_list(RouteInputs)
    \/ admin_dashboard(RouteInputs)
    \/ admin_dataset_upload(RouteInputs)
    \/ admin_dataset_share(RouteInputs)
    \/ admin_audit_clear(RouteInputs)
    \/ investor_dashboard(RouteInputs)
    \/ dataset_view(RouteInputs)
    \/ login(RouteInputs)
    \/ logout(RouteInputs)

SpecRoutes == Init /\ [][NextRoutes]_vars


IsPrefix(a, b) == Len(a) <= Len(b) /\ SubSeq(b, 1, Len(a)) = a

\* C13: every step other than an audit clear leaves the audit log it found as
\* a prefix of the audit log it leaves, and every step without exception
\* leaves the share registry it found as a prefix of the one it leaves.
C13_AppendOnly ==
    [][ /\ ~ClearStep => IsPrefix(audit, audit')
        /\ IsPrefix(shares, shares') ]_vars

\* Two requests have appended to the audit log, a grant is in the registry,
\* and no clear has run.
C13_Witness ==
    /\ Len(audit) >= 3
    /\ granted # {}
    /\ Len(shares) > Len(ShareHeader)
    /\ backups = <<>>

---------------------------------------------------------------------------
(* Claims about what a single write stores (Spec).                         *)

\* A thread's request completes in this step.
Saves(t, op) == thr[t].pc = "loaded" /\ thr[t].op = op /\ thr'[t].pc = "idle"

\* 1 for an empty collection, otherwise the number just above every id.
IdAfter(df) ==
    IF df = <<>> THEN 1
    ELSE CHOOSE n \in {i + 1 : i \in Ids(df)} : \A i \in Ids(df) : i < n

\* C14: when an accepted add saves, the stored collection is the collection the
\* add loaded, record for record and in the same order, followed by one new
\* record; the id of the new record is 1 if that collection was empty and its
\* largest id plus one otherwise, and its fields are the submitted values.
C14_AddAppends ==
    [][\A t \in Threads :
          Saves(t, "add") =>
              LET e == thr[t].e
                  old == thr[t].snap
                  new == ReadCsv(files'[e])
              IN  /\ Len(new) = Len(old) + 1
                  /\ SubSeq(new, 1, Len(old)) = old
                  /\ new[Len(new)].id = IdAfter(old)
                  /\ \A f \in DataFields(e) :
                        new[Len(new)].c[f] = ReadCell(Get(thr[t].form, f, ""))]_vars

\* Testland, then Otherland, were added to an empty Country collection and are
\* stored with CountryID 1 and 2, in that order.
C14_Witness ==
    /\ Len(audit) = 3
    /\ audit[2].Action = "entity_add" /\ audit[2].Details = <<"Added", "countries", 1>>
    /\ audit[3].Action = "entity_add" /\ audit[3].Details = <<"Added", "countries", 2>>
    /\ files["countries"] = <<CountryRow(1, "Testland"), CountryRow(2, "Otherland")>>

\* new is old plus one record at the end, with the next id and the form's values.
AddExpected(old, new, e, form) ==
    /\ Len(new) = Len(old) + 1
    /\ SubSeq(new, 1, Len(old)) = old
    /\ new[Len(new)].id = IdAfter(old)
    /\ \A f \in DataFields(e) : new[Len(new)].c[f] = ReadCell(Get(form, f, ""))

\* new is old with the fields of record id replaced by the form's values where
\* the form has them.
EditExpected(old, new, e, id, form) ==
    /\ Len(new) = Len(old)
    /\ \A i \in DOMAIN old :
          /\ new[i].id = old[i].id
          /\ old[i].id # id => new[i] = old[i]
          /\ old[i].id = id =>
                \A f \in DataFields(e) :
                    new[i].c[f] = IF f \in DOMAIN form THEN ReadCell(form[f]) ELSE old[i].c[f]

\* new is old without the record id.
DeleteExpected(old, new, id) ==
    new = SelectSeq(old, LAMBDA r : ~(r.id = id))

\* C15: when a writer saves after another writer has changed the file it had
\* loaded, the stored collection is the collection this writer loaded with this
\* writer's change and nothing else (what the other writer stored is gone),
\* and the request is answered with its normal redirect and no error.
C15_LostUpdate ==
    [][\A t \in Threads :
          ( /\ thr[t].pc = "loaded" /\ thr'[t].pc = "idle"
            /\ thr[t].op \in {"add", "edit", "delete"}
            /\ ReadCsv(files[thr[t].e]) # thr[t].snap )
          => LET r == thr[t]
                 new == ReadCsv(files'[r.e])
             IN  /\ CASE r.op = "add" -> AddExpected(r.snap, new, r.e, r.form)
                      [] r.op = "edit" -> EditExpected(r.snap, new, r.e, r.id, r.form)
                      [] r.op = "delete" -> DeleteExpected(r.snap, new, r.id)
                 /\ resp'.kind = "redirect" /\ resp'.errors = <<>>
                 /\ resp'.flash \in {"Added.", "Updated.", "Deleted."}]_vars

\* Two adds to the empty Country collection have both completed, each answered
\* normally, and one record is stored.
C15_Witness ==
    /\ Len(audit) = 3
    /\ audit[2].Action = "entity_add" /\ audit[2].Details = <<"Added", "countries", 1>>
    /\ audit[3].Action = "entity_add" /\ audit[3].Details = <<"Added", "countries", 1>>
    /\ Len(files["countries"]) = 1
    /\ \A t \in Threads : thr[t].pc = "idle"
    /\ resp.flash = "Added."

---------------------------------------------------------------------------
(* The caches: an administrator writes countries and sites, one request at *)
(* a time; a site's CountryID is whatever text the form carries.           *)

CacheForms ==
    [e \in ENTITIES |->
        CASE e = "sites" ->
                 {[CountryID |-> x, Latitude |-> "45", Longitude |-> "100",
                   Production_tonnes |-> "7"] : x \in {"1", "2", "abc"}}
          [] e = "countries" -> {[CountryName |-> "Testland"]}
          [] OTHER -> {}]

CacheInputs ==
    [sessions |-> {Administrator}, entities |-> {"countries", "sites"}, methods |-> {"POST"},
     forms |-> CacheForms, events |-> MaxEvents, logfails |-> {FALSE}]

NextCache ==
    \/ admin_entity_add(1, CacheInputs)
    \/ admin_entity_add_save(1, CacheInputs)
    \/ admin_entity_edit(1, CacheInputs)
    \/ admin_entity_edit_save(1, CacheInputs)
    \/ admin_entity_delete(1, CacheInputs)
    \/ admin_entity_delete_save(1, CacheInputs)
    \/ admin_sites_delete_by_country(1, CacheInputs)
    \/ admin_sites_delete_by_country_save(1, CacheInputs)

SpecCache == Init /\ [][NextCache]_vars

\* The country a site's CountryID names, as a number; 0 when it names none.
CountryKey(site) ==
    LET v == site.c["CountryID"]
    IN  IF v.k = "num" THEN v.n
        ELSE IF v.k = "str" /\ IsNumeral(v.s) THEN NumOf(v.s)
        ELSE 0

\* Every row of the view pairs a site of the collection with the country of
\* the collection that the site names.
PairsOfJoin(full, sdf, cdf) ==
    \A k \in DOMAIN full :
        /\ \E i \in DOMAIN sdf : full[k].site = sdf[i]
        /\ \E j \in DOMAIN cdf : full[k].country = cdf[j] /\ cdf[j].id = CountryKey(full[k].site)

\* C16: in every state of a run of admin writes made one at a time, the cached
\* collections are what their files hold, and every row of the cached joined
\* view of sites pairs a stored site with the stored country it names.
C16_CacheIsCurrent ==
    /\ cache.countries = ReadCsv(files["countries"])
    /\ cache.sites = ReadCsv(files["sites"])
    /\ cache.production = ReadCsv(files["production"])
    /\ PairsOfJoin(cache.sites_full, ReadCsv(files["sites"]), ReadCsv(files["countries"]))

---------------------------------------------------------------------------
(* Claims about a failing write to the audit log (SpecAudit).              *)

\* C17: a request whose audit-log write fails is still answered as it would
\* have been with the write succeeding: none of the logging requests (login,
\* logout, page view, entity add) is ever answered with the error page.
C17_LogFailureHarmless == resp.kind # "error"

---------------------------------------------------------------------------
(* The dashboard's view of a long audit log: the log starts with up to     *)
(* MaxLogEntries logout events in it, the shortest start LogWindow entries *)
(* below that, grows by logouts, and is rendered.                          *)

MaxLogEntries == 201
LogWindow == 6

\* The audit log after k logouts of the investor.
LogOf(k) ==
    <<AuditHeader>> \o
    [i \in 1..k |-> AuditEntry(i - 1, Tok("ivy"), "logout", <<"logout">>, <<"User logged out">>)]

InitTail ==
    /\ files = [countries |-> <<>>, sites |-> <<>>, production |-> <<>>]
    /\ cache = Reloaded(files)
    /\ \E k \in (MaxLogEntries - LogWindow)..MaxLogEntries : audit = LogOf(k) /\ clock = k
    /\ backups = <<>>
    /\ shares = ShareHeader
    /\ thr = [t \in Threads |-> Idle]
    /\ resp = NoResponse
    /\ everAssigned = [e \in ENTITIES |-> {}]
    /\ granted = {}
    /\ uploaded = [file |-> "", df |-> ""]
    /\ served = <<>>

TailInputs ==
    [sessions |-> {Administrator,
                   [logged_in |-> TRUE, username |-> Tok("ivy"), role |-> "Investor"]},
     events |-> MaxLogEntries + 1, logfails |-> {FALSE}]

NextTail ==
    \/ logout(TailInputs)
    \/ admin_dashboard(TailInputs)

SpecTail == InitTail /\ [][NextTail]_vars

\* C18: with k entries after the header in the audit log, the dashboard is
\* served exactly the last min(k, 200) entries, in log order, and the header
\* line is never among them.
C18_TailServed ==
    (resp.kind = "render" /\ resp.target = "admin_dashboard") =>
        LET k == Len(audit) - 1
            n == IF k < TailLimit THEN k ELSE TailLimit
        IN  /\ served = SubSeq(audit, Len(audit) - n + 1, Len(audit))
            /\ \A i \in DOMAIN served : served[i] # AuditHeader

---------------------------------------------------------------------------
(* Claims about the frame of an edit (SpecForm: one request at a time).    *)

\* The collection as its file holds it once written: a record's values are
\* compared as to_csv writes them, a missing value as the empty cell.
Written(file) == ToCsv(ReadCsv(file))

\* C19: when an accepted edit of record X saves, the stored collection is the
\* collection stored before with the fields of X that the request carries set
\* to the submitted values and the fields it leaves out kept; the id of X, the
\* other records, the order and the count are unchanged; and a request that
\* ends with "Not found" leaves the stored collections and the log as they were.
C19_EditFrame ==
    [][ /\ \A t \in Threads :
              Saves(t, "edit") =>
                  LET e == thr[t].e
                      X == thr[t].id
                      form == thr[t].form
                      old == Written(files[e])
                      new == Written(files'[e])
                  IN  /\ DOMAIN new = DOMAIN old
                      /\ \A i \in DOMAIN old :
                            /\ new[i].id = old[i].id
                            /\ old[i].id # X => new[i] = old[i]
                            /\ old[i].id = X =>
                                  \A f \in DataFields(e) :
                                      /\ f \in DOMAIN form =>
                                            new[i].c[f] = WriteCell(ReadCell(form[f]))
                                      /\ f \notin DOMAIN form => new[i].c[f] = old[i].c[f]
                      /\ \A o \in ENTITIES \ {e} : files'[o] = files[o]
        /\ (resp' # resp /\ resp'.flash = "Not found") =>
              (files' = files /\ audit' = audit /\ thr' = thr) ]_vars

\* Site 2 was edited once with a request that carried a new CountryID and no
\* Production_tonnes: its country is the new one and its production is still
\* the 9 it was stored with, a value no request carries.
C19_Witness ==
    /\ resp.flash = "Updated."
    /\ Len(audit) = 2
    /\ audit[2].Action = "entity_edit" /\ audit[2].Details = <<"Edited", "sites", 2>>
    /\ Len(files["sites"]) = 2
    /\ ReadCsv(files["sites"])[2].c["CountryID"] = ReadCell("2")
    /\ ReadCsv(files["sites"])[2].c["Production_tonnes"] = ReadCell("9")
    /\ ReadCsv(files["sites"])[1] = ReadCsv(<<SiteRow(1, "1", "45", "100", "7")>>)[1]

---------------------------------------------------------------------------
(* Claims about what a session that is not an administrator's can change   *)
(* (SpecRoutes: every modelled route, asked for by every kind of session). *)

IsAdministrator(s) == s.logged_in /\ s.role = "Administrator"

\* C20: a step that ends a request made without an administrator's session
\* leaves the stored collections, the cached copies of them, the share
\* registry, the uploaded dataset and the log backups unchanged, and leaves the
\* audit log it found as a prefix of the one it leaves: appending to the audit
\* log is all it can do.
C20_OnlyAdministratorsWrite ==
    [][ ~IsAdministrator(resp'.sess) =>
            /\ files' = files
            /\ cache' = cache
            /\ shares' = shares
            /\ uploaded' = uploaded
            /\ backups' = backups
            /\ IsPrefix(audit, audit') ]_vars

\* The investor has been logged in the audit log (a page view or a logout),
\* has then asked for an administrator's route and been turned away, and
\* everything stored is as it was at the start.
C20_Witness ==
    /\ resp.sess.logged_in /\ resp.sess.role = "Investor"
    /\ resp.gate = "admin" /\ resp.flash = "Administrator access required."
    /\ Len(audit) >= 2
    /\ audit[Len(audit)].Username = Tok("ivy")
    /\ files \in InitFiles
    /\ shares = ShareHeader
    /\ uploaded = [file |-> "", df |-> ""]
    /\ backups = <<>>

---------------------------------------------------------------------------
(* The audit entries of the generic admin handlers: an administrator posts *)
(* valid and invalid forms for sites and for an entity that does not       *)
(* exist, deletes by id and by country, and the write of the log may fail. *)

\* The forms for country 1 at longitude 100: the latitude and the production
\* take every text of the vocabulary, valid and invalid, or are left out.
LogForms ==
    [e \in ENTITIES |->
        {fm \in Forms[e] : e = "sites" /\ fm["CountryID"] = "1" /\ fm["Longitude"] = "100"}]

LogInputs ==
    [sessions |-> {Administrator}, entities |-> {"sites", "bogus"}, methods |-> {"POST"},
     forms |-> LogForms, events |-> MaxEvents, logfails |-> BOOLEAN]

NextLog ==
    \/ admin_entity_add(1, LogInputs)
    \/ admin_entity_add_save(1, LogInputs)
    \/ admin_entity_edit(1, LogInputs)
    \/ admin_entity_edit_save(1, LogInputs)
    \/ admin_entity_delete(1, LogInputs)
    \/ admin_entity_delete_save(1, LogInputs)
    \/ admin_sites_delete_by_country(1, LogInputs)
    \/ admin_sites_delete_by_country_save(1, LogInputs)

SpecLog == Init /\ [][NextLog]_vars

\* The action logged by each writing operation.
ActionOf(op) ==
    CASE op = "add" -> "entity_add"
      [] op = "edit" -> "entity_edit"
      [] op = "delete" -> "entity_delete"
      [] op = "bulk_delete" -> "entity_bulk_delete"

\* C21: the step that completes an accepted add, edit, delete or bulk delete
\* has stored the collection and reloaded the caches from the files, and, the
\* write of the log succeeding, leaves the audit log with exactly one entry
\* more, of the action of the operation (when that write fails the collection
\* is stored all the same and no entry is added); every other step (a request
\* rejected by validation, for an unknown entity or for an edit of an unknown
\* id among them) leaves the audit log as it was.
C21_OneEntryAfterSave ==
    [][ \A t \in Threads :
          IF thr[t].pc = "loaded" /\ thr'[t].pc = "idle"
          THEN /\ files' = [files EXCEPT ![thr[t].e] = ToCsv(thr[t].df)]
               /\ cache' = Reloaded(files')
               /\ IF resp'.kind = "error"
                  THEN audit' = audit
                  ELSE /\ Len(audit') = Len(audit) + 1
                       /\ SubSeq(audit', 1, Len(audit)) = audit
                       /\ audit'[Len(audit')].Action = ActionOf(thr[t].op)
          ELSE (\A u \in Threads : ~(thr[u].pc = "loaded" /\ thr'[u].pc = "idle"))
                   => audit' = audit ]_vars

\* An add and a bulk delete have each been logged once, in that order, and the
\* request after them was rejected by validation and logged nothing.
C21_Witness ==
    /\ Len(audit) = 3
    /\ audit[2].Action = "entity_add"
    /\ audit[3].Action = "entity_bulk_delete"
    /\ resp.kind = "render" /\ resp.errors # <<>>
    /\ \A t \in Threads : thr[t].pc = "idle"

---------------------------------------------------------------------------
(* A browser following redirects.  A client asks for a route with GET (a   *)
(* login or a share is posted); while the last answer is a redirect the    *)
(* client asks for its target, with the session the answer left it with,   *)
(* and asks for nothing else until a page is rendered.                     *)

MaxBrowseEvents == 2

\* index: '/' redirects everyone to the login page.
index(in) ==
    \E s \in in.sessions : Reply(Response(s, "index", "redirect", "/login", "", <<>>))

\* dashboard: the login page for a client without a session, the investor
\* dashboard for an investor; for anyone else the view is logged and rendered.
dashboard(in) ==
    \E s \in in.sessions :
        IF ~s.logged_in
        THEN Reply(Response(s, "auth", "redirect", "/login", "", <<>>))
        ELSE IF s.role = "Investor"
        THEN Reply(Response(s, "auth", "redirect", "/investor", "", <<>>))
        ELSE /\ Budget(in, 1)
             /\ clock' = clock + 1
             /\ \E log_fails \in in.logfails :
                   IF log_fails
                   THEN /\ UNCHANGED audit
                        /\ resp' = ServerError(s, "auth", "/dashboard")
                   ELSE /\ audit' = log_event(audit, SessionUser(s), "page_view", <<"dashboard">>,
                                              <<"Visited dashboard">>)
                        /\ resp' = Response(s, "auth", "render", "dashboard", "", <<>>)
             /\ UNCHANGED <<files, cache, backups, shares, thr, everAssigned, granted, uploaded, served>>

BrowseInputs ==
    [sessions |-> Sessions, entities |-> {"countries", "bogus"}, methods |-> {"GET"},
     forms |-> NumericForms, events |-> MaxBrowseEvents,
     share_types |-> {Tok("role")}, share_values |-> {Tok("Investor")},
     ios |-> {"ok"}, fails |-> {"none"}, logfails |-> {FALSE},
     usernames |-> {Tok("admin"), Tok("ivy")}, passwords |-> {"admin-pw", "ivy-pw", "guess"},
     uploads |-> {""}]

PostInputs == [BrowseInputs EXCEPT !.methods = {"POST"}]

\* The session the client holds after the last answer: the one login has just
\* filled (lines 173-177), none after logout (session.clear()), and otherwise
\* the one it sent.
SessionAfter ==
    IF resp.gate = "none" /\ resp.kind = "redirect" /\ resp.target = "/dashboard"
    THEN LET u == CHOOSE u \in Users : u.Username = audit[Len(audit)].Username
         IN  [logged_in |-> TRUE, username |-> u.Username, role |-> u.RoleName]
    ELSE IF resp.gate = "none" /\ resp.kind = "redirect" /\ resp.target = "/login"
    THEN NoSession
    ELSE resp.sess

\* The request for the target of a redirect: a GET with the client's session.
\* It may log the two events a chain can log beyond those of the requests
\* the clients start.
FollowInputs ==
    [BrowseInputs EXCEPT !.sessions = {SessionAfter}, !.events = MaxBrowseEvents + 2,
                         !.entities = {"countries"}]

\* A client may start a request: no redirect is waiting to be followed.
CanStart == resp.kind # "redirect" /\ clock < MaxBrowseEvents

Redirected(path) == resp.kind = "redirect" /\ resp.target = path

StartRequest ==
    /\ CanStart
    /\ \/ index(BrowseInputs)
       \/ login(BrowseInputs)
       \/ login(PostInputs)
       \/ logout(BrowseInputs)
       \/ dashboard(BrowseInputs)
       \/ investor_dashboard(BrowseInputs)
       \/ dataset_view(BrowseInputs)
       \/ admin_dashboard(BrowseInputs)
       \/ admin_entity_list(BrowseInputs)
       \/ admin_entity_add(1, BrowseInputs)
       \/ admin_entity_edit(1, BrowseInputs)
       \/ admin_dataset_share(PostInputs)

FollowRedirect ==
    \/ Redirected("/login") /\ login(FollowInputs)
    \/ Redirected("/dashboard") /\ dashboard(FollowInputs)
    \/ Redirected("/investor") /\ investor_dashboard(FollowInputs)
    \/ Redirected("/admin") /\ admin_dashboard(FollowInputs)
    \/ Redirected("/admin/countries") /\ admin_entity_list(FollowInputs)

NextBrowse == StartRequest \/ FollowRedirect

\* The client follows a redirect as soon as it gets one.
SpecBrowse == Init /\ [][NextBrowse]_vars /\ WF_vars(FollowRedirect)

\* C22: whatever the session and the route a request starts at, an answer that
\* is a redirect leads, the client following it, to an answer that is a
\* rendered page: no chain of redirects goes on for ever.
C22_RedirectsTerminate == (resp.kind = "redirect") ~> (resp.kind = "render")

\* The investor, after a page view that was logged, has asked for an
\* administrator's route and been sent to /dashboard, which will send them on
\* to /investor: the longest chain of redirects is under way.
C22_Witness ==
    /\ Redirected("/dashboard")
    /\ resp.gate = "admin"
    /\ resp.sess.logged_in /\ resp.sess.role = "Investor"
    /\ Len(audit) >= 2
    /\ audit[Len(audit)].Action = "page_view"

=============================================================================
